---------------------------- MODULE Spec2Model ----------------------------
(*
  Model of the Masterblog API backend (src/backend/backend_app.py): the
  posts.json store (read_posts / write_posts) and the five Flask handlers
  get_posts, add_post, update_post, delete_post and search_posts.

  Strings are sequences of character codes (Python code points), so that
  str.lower, the "in" substring test, str.split('/') and the ordering used
  by list.sort are computed as Python computes them.
*)
EXTENDS Integers, Sequences, FiniteSets, TLC

VARIABLES
    file,      \* posts.json: [kind, posts, size], see The store
    req,       \* the request served last (sequential specifications)
    resp,      \* the response to it: [status, body]
    prev,      \* history: `file' as it was when that request arrived
    deleted,   \* history: ids of the posts deleted so far
    th         \* ConcSpec: per worker thread, the locals of the handler it runs

vars == <<file, req, resp, prev, deleted, th>>

---------------------------------------------------------------------------
(* Bounds *)

\* ids are capped: add_post is not taken once it would assign more than MaxId
MaxId == 3
\* longest collection the Init of ListSpec and SearchSpec draws
MaxLen == 3

---------------------------------------------------------------------------
(* Strings *)

\* "Banana", "apple" and "Apple" as code points; "" is the empty sequence
Banana == <<66, 97, 110, 97, 110, 97>>
apple  == <<97, 112, 112, 108, 101>>
Apple  == <<65, 112, 112, 108, 101>>
EmptyStr == <<>>

\* str.lower() on ASCII
Lower(s) == [i \in 1..Len(s) |-> IF s[i] \in 65..90 THEN s[i] + 32 ELSE s[i]]

\* Python's str < str: lexicographic by code point, a proper prefix is smaller
StrLess(a, b) ==
    \E k \in 0..Len(a) :
        /\ k <= Len(b)
        /\ \A i \in 1..k : a[i] = b[i]
        /\ \/ k = Len(a) /\ k < Len(b)
           \/ k < Len(a) /\ k < Len(b) /\ a[k + 1] < b[k + 1]

\* Python's  sub in s
Contains(sub, s) ==
    \E i \in 0..(Len(s) - Len(sub)) : SubSeq(s, i + 1, i + Len(sub)) = sub

\* s.split('/')[0]: the part before the first '/'
SplitFirst(s) ==
    IF \E i \in 1..Len(s) : s[i] = 47
    THEN LET i == CHOOSE j \in 1..Len(s) : s[j] = 47 /\ \A k \in 1..(j - 1) : s[k] # 47
         IN  SubSeq(s, 1, i - 1)
    ELSE s

Reverse(s) == [i \in 1..Len(s) |-> s[Len(s) + 1 - i]]

---------------------------------------------------------------------------
(* Dictionaries: request.args, the JSON body, a post *)

\* d.get(k, default)
Get(d, k, default) == IF k \in DOMAIN d THEN d[k] ELSE default

\* request.get_json(): None, or a JSON object
NoneBody == [none |-> TRUE, obj |-> <<>>]
Body(obj) == [none |-> FALSE, obj |-> obj]

\* Python truthiness of data.get(k): None (key missing) and '' are falsy
Truthy(obj, k) == k \in DOMAIN obj /\ obj[k] # EmptyStr

Post(id, title, content) == [id |-> id, title |-> title, content |-> content]

---------------------------------------------------------------------------
(* The store *)

(*
  posts.json is [kind, posts, size]: kind "json" when its bytes are a JSON
  document (the array posts), "none" when the file is missing or empty,
  "garbage" when it holds bytes that are no JSON document; size is its length
  in bytes.
*)

RECURSIVE Digits(_)
Digits(n) == IF n < 10 THEN 1 ELSE 1 + Digits(n \div 10)

RECURSIVE ItemBytes(_)
\* json.dump(posts, file, indent=4) writes "[]" for no post, and otherwise
\* "[\n", the posts joined by ",\n", "\n]", a post being
\*     {\n        "id": 1,\n        "title": "..",\n        "content": ".."\n    }
\* indented by four blanks: 70 bytes and its id's digits, title and content
\* (ASCII letters and '/', which json does not escape)
ItemBytes(posts) ==
    IF posts = <<>> THEN 0
    ELSE 72 + Digits(posts[1].id) + Len(posts[1].title) + Len(posts[1].content)
         + ItemBytes(Tail(posts))

JsonSize(posts) == 2 + ItemBytes(posts)

\* posts.json missing (or empty)
NoFile == [kind |-> "none", posts |-> <<>>, size |-> 0]

\* posts.json holding size bytes that json.load rejects
Garbage(size) == [kind |-> "garbage", posts |-> <<>>, size |-> size]

\* json.load, or [] on FileNotFoundError and JSONDecodeError
read_posts(f) == IF f.kind = "json" THEN f.posts ELSE <<>>

\* posts.json after an undisturbed write_posts(posts)
write_posts(posts) == [kind |-> "json", posts |-> posts, size |-> JsonSize(posts)]

---------------------------------------------------------------------------
(* Handler logic, shared by the sequential and the concurrent specification *)

Response(status, body) == [status |-> status, body |-> body]

Request(op, id, data, args) == [op |-> op, id |-> id, data |-> data, args |-> args]

\* a validation that only asks whether the keys are there
AddInvalidKeysOnly(data) ==
    \/ data.none
    \/ "title" \notin DOMAIN data.obj
    \/ "content" \notin DOMAIN data.obj

\* add_post:  not data or not data.get('title') or not data.get('content')
AddInvalid(data) ==
    \/ data.none
    \/ data.obj = <<>>
    \/ ~Truthy(data.obj, "title")
    \/ ~Truthy(data.obj, "content")

MaxOf(S) == CHOOSE m \in S : \A x \in S : x <= m

\* an id taken from the length of the collection
NewIdLen(posts) == Len(posts) + 1

\* the smallest id no stored post has: fills the gaps deletions leave
NewIdFirstFree(posts) ==
    CHOOSE n \in 1..(Len(posts) + 1) :
        /\ \A i \in 1..Len(posts) : posts[i].id # n
        /\ \A m \in 1..(n - 1) : \E i \in 1..Len(posts) : posts[i].id = m

\* new_id = max(post['id'] for post in posts) + 1 if posts else 1
NewId(posts) ==
    IF posts # <<>> THEN MaxOf({posts[i].id : i \in 1..Len(posts)}) + 1 ELSE 1

new_post(data, posts) == Post(NewId(posts), data.obj["title"], data.obj["content"])

\* next((post for post in posts if post['id'] == id), None), as an index; 0 is None
Find(posts, id) ==
    IF \E i \in 1..Len(posts) : posts[i].id = id
    THEN CHOOSE i \in 1..Len(posts) :
             posts[i].id = id /\ \A j \in 1..(i - 1) : posts[j].id # id
    ELSE 0

\* update_post:  not title or not content   (data is a dict here)
UpdateInvalid(data) ==
    \/ ~Truthy(data.obj, "title")
    \/ ~Truthy(data.obj, "content")

\* post["title"] = title; post["content"] = content   (post is posts[i])
Updated(posts, i, data) ==
    [posts EXCEPT ![i] = Post(posts[i].id, data.obj["title"], data.obj["content"])]

\* posts.pop(): drops the last element, whatever it is
RemoveLast(posts, post) == SubSeq(posts, 1, Len(posts) - 1)

\* posts.remove(post): drops the first element equal to post
Remove(posts, post) ==
    LET k == CHOOSE j \in 1..Len(posts) :
                 posts[j] = post /\ \A l \in 1..(j - 1) : posts[l] # post
    IN  SubSeq(posts, 1, k - 1) \o SubSeq(posts, k + 1, Len(posts))

---------------------------------------------------------------------------
(* Inputs of the CRUD specifications *)

Titles == {<<97>>, <<98>>}
Contents == {<<120>>}

\* JSON objects with any subset of the keys title and content
Objects(T, C) ==
    {<<>>}
    \cup {[k \in {"title"} |-> t] : t \in T}
    \cup {[k \in {"content"} |-> c] : c \in C}
    \cup {[k \in {"title", "content"} |-> IF k = "title" THEN tc[1] ELSE tc[2]] :
              tc \in T \X C}

Bodies == {NoneBody} \cup {Body(o) : o \in Objects(Titles \cup {EmptyStr}, Contents \cup {EmptyStr})}

\* ids a client may name: those that can exist and one that never does
Ids == 1..(MaxId + 1)

\* the collections posts.json may hold when the service starts: unique ids,
\* in any order
InitPosts ==
    {<<>>}
    \cup {<<Post(i, <<97>>, <<120>>)>> : i \in 1..MaxId}
    \cup {<<Post(ij[1], <<97>>, <<120>>), Post(ij[2], <<98>>, <<120>>)>> :
              ij \in {x \in (1..MaxId) \X (1..MaxId) : x[1] # x[2]}}

NoRequest == Request("none", 0, NoneBody, <<>>)

IdleThreads == <<>>

---------------------------------------------------------------------------
(* Sequential service: one request at a time, each handler run to its end *)

Init ==
    /\ file \in {NoFile, Garbage(1)} \cup {write_posts(p) : p \in InitPosts}
    /\ req = NoRequest
    /\ resp = Response(0, <<>>)
    /\ prev = file
    /\ deleted = {}
    /\ th = IdleThreads

\* POST /api/posts
add_post(data) ==
    /\ req' = Request("add", 0, data, <<>>)
    /\ prev' = file
    /\ IF AddInvalid(data)
       THEN /\ resp' = Response(400, <<>>)
            /\ UNCHANGED file
       ELSE LET posts == read_posts(file)
                post == new_post(data, posts)
            IN  /\ post.id <= MaxId
                /\ file' = write_posts(Append(posts, post))
                /\ resp' = Response(201, <<post>>)
    /\ UNCHANGED <<deleted, th>>

\* PUT /api/posts/<id>
update_post(id, data) ==
    /\ req' = Request("update", id, data, <<>>)
    /\ prev' = file
    /\ LET posts == read_posts(file)
           i == Find(posts, id)
       IN  IF i = 0
           THEN resp' = Response(404, <<>>) /\ UNCHANGED file
           ELSE IF data.none
           \* data.get on None raises AttributeError: Flask answers 500
           THEN resp' = Response(500, <<>>) /\ UNCHANGED file
           ELSE IF UpdateInvalid(data)
           THEN resp' = Response(400, <<>>) /\ UNCHANGED file
           ELSE /\ file' = write_posts(Updated(posts, i, data))
                /\ resp' = Response(200, <<Updated(posts, i, data)[i]>>)
    /\ UNCHANGED <<deleted, th>>

\* DELETE /api/posts/<id>
delete_post(id) ==
    /\ req' = Request("delete", id, NoneBody, <<>>)
    /\ prev' = file
    /\ LET posts == read_posts(file)
           i == Find(posts, id)
       IN  IF i = 0
           THEN resp' = Response(404, <<>>) /\ UNCHANGED <<file, deleted>>
           ELSE /\ file' = write_posts(Remove(posts, posts[i]))
                /\ resp' = Response(200, <<>>)
                /\ deleted' = deleted \cup {id}
    /\ UNCHANGED th

Next ==
    \/ \E data \in Bodies : add_post(data)
    \/ \E id \in Ids, data \in Bodies : update_post(id, data)
    \/ \E id \in Ids : delete_post(id)

Spec == Init /\ [][Next]_vars

---------------------------------------------------------------------------
(* Claims on the sequential service *)

IdsOf(posts) == {posts[i].id : i \in 1..Len(posts)}

\* the field is missing (no body, or no such key) or the empty string
MissingOrEmpty(data, k) ==
    \/ data.none
    \/ k \notin DOMAIN data.obj
    \/ data.obj[k] = EmptyStr

\* C2 (as claimed): once a post with id k has been deleted, no later create
\* assigns id k to a new post.
C2_NeverReused ==
    (req.op = "add" /\ resp.status = 201) => resp.body[1].id \notin deleted

\* C2 (amended): a create assigns the id of a deleted post only when every post
\* then in the collection has a smaller id, that is when the deleted post held
\* the maximum id or was the only post.
C2_ReusedOnlyAboveAll ==
    (req.op = "add" /\ resp.status = 201 /\ resp.body[1].id \in deleted)
        => \A i \in IdsOf(read_posts(prev)) : i < resp.body[1].id

\* a create has been given the id of a post deleted earlier, next to a survivor
C2_Witness ==
    /\ req.op = "add" /\ resp.status = 201
    /\ resp.body[1].id \in deleted
    /\ read_posts(prev) # <<>>

C4_CreateAppendsMaxPlusOne ==
    (req.op = "add" /\ ~MissingOrEmpty(req.data, "title") /\ ~MissingOrEmpty(req.data, "content"))
        => LET old == read_posts(prev)
               expected == IF old = <<>> THEN 1
                           ELSE 1 + CHOOSE m \in IdsOf(old) : \A i \in IdsOf(old) : i <= m
           IN  /\ resp.status = 201
               /\ resp.body = <<Post(expected, req.data.obj["title"], req.data.obj["content"])>>
               /\ file.kind = "json"
               /\ file.posts = old \o resp.body

\* a create onto a collection of two posts stored out of id order
C4_Witness ==
    /\ req.op = "add" /\ resp.status = 201
    /\ Len(read_posts(prev)) = 2
    /\ read_posts(prev)[1].id > read_posts(prev)[2].id

\* C5 (as claimed): an update of an unknown id answers 404, an update of a known
\* id with a missing or empty title or content answers 400, and either way
\* posts.json is as it was.
C5_FailedUpdateIs404Or400 ==
    req.op = "update" =>
        LET known == req.id \in IdsOf(read_posts(prev))
            bad == MissingOrEmpty(req.data, "title") \/ MissingOrEmpty(req.data, "content")
        IN  /\ ~known => (resp.status = 404 /\ file = prev)
            /\ (known /\ bad) => (resp.status = 400 /\ file = prev)

\* What holds of update_post for every body that is a JSON object: 404 for an
\* unknown id, 400 for a missing or empty field, posts.json untouched by both.
C5_ObjectBodies ==
    (req.op = "update" /\ ~req.data.none) =>
        LET known == req.id \in IdsOf(read_posts(prev))
            bad == MissingOrEmpty(req.data, "title") \/ MissingOrEmpty(req.data, "content")
        IN  /\ ~known => (resp.status = 404 /\ file = prev)
            /\ (known /\ bad) => (resp.status = 400 /\ file = prev)
            /\ resp.status # 200 => file = prev

\* a delete of a stored id removes exactly the post with that id and keeps the
\* others in order; a delete of an id not stored answers 404, changes nothing
C6_DeleteState ==
    req.op = "delete" =>
        LET old == read_posts(prev) IN
        IF req.id \in IdsOf(old)
        THEN /\ resp.status = 200
             /\ file.kind = "json"
             /\ file.posts = SelectSeq(old, LAMBDA p : p.id # req.id)
             /\ Len(file.posts) = Len(old) - 1
        ELSE resp.status = 404 /\ file = prev

\* the delete that directly repeats a successful one answers 404
C6_RepeatedDelete ==
    (req.op = "delete" /\ resp.status = 200 /\ req'.op = "delete" /\ req'.id = req.id)
        => (resp'.status = 404 /\ file' = file)

\* an id that is not stored stays so until a create
C6_GoneStaysGone ==
    \A k \in Ids :
        (k \notin IdsOf(read_posts(file)) /\ req'.op # "add")
            => k \notin IdsOf(read_posts(file'))

\* C6: a delete of a stored id removes exactly the one post with that id and
\* leaves the others and their order; a later delete of the same id, with no
\* create in between, answers 404 and changes nothing.
C6_DeleteExactlyOne ==
    /\ []C6_DeleteState
    /\ [][C6_RepeatedDelete]_vars
    /\ [][C6_GoneStaysGone]_vars

\* a delete of an id deleted before was refused while other posts are stored
C6_Witness ==
    /\ req.op = "delete" /\ resp.status = 404
    /\ req.id \in deleted
    /\ read_posts(file) # <<>>

---------------------------------------------------------------------------
(* GET /api/posts: listing and sorting *)

\* x.get(sort_field, ''): the post's field, '' when a post has no such field.
\* An id is a number; it is compared as the one-element sequence of itself.
SortKey(post, sort_field) ==
    IF sort_field = "title" THEN post.title
    ELSE IF sort_field = "content" THEN post.content
    ELSE IF sort_field = "id" THEN <<post.id>>
    ELSE EmptyStr

\* where list.sort puts p into an ascending run: behind every element whose
\* key is not greater than p's
InsertByKey(run, p, f) ==
    LET after == {j \in 1..Len(run) : StrLess(SortKey(p, f), SortKey(run[j], f))}
        k == IF after = {} THEN Len(run) + 1
             ELSE CHOOSE j \in after : \A l \in after : j <= l
    IN  SubSeq(run, 1, k - 1) \o <<p>> \o SubSeq(run, k, Len(run))

RECURSIVE SortedBy(_, _)
\* list.sort(key=...): stable, ascending
SortedBy(posts, f) ==
    IF posts = <<>> THEN <<>>
    ELSE InsertByKey(SortedBy(SubSeq(posts, 1, Len(posts) - 1), f), posts[Len(posts)], f)

\* posts.sort(key=lambda x: x.get(sort_field, ''), reverse=reverse); with
\* reverse=True list.sort reverses, sorts and reverses again, so that equal
\* keys keep their original order
sort(posts, sort_field, reverse) ==
    IF reverse THEN Reverse(SortedBy(Reverse(posts), sort_field))
    ELSE SortedBy(posts, sort_field)

get_posts(args) ==
    /\ req' = Request("list", 0, NoneBody, args)
    /\ prev' = file
    /\ LET posts == read_posts(file)
           sort_field == Get(args, "sort", "")
           sort_direction == Get(args, "direction", "asc")
       IN  resp' = Response(200, IF sort_field # ""
                                 THEN sort(posts, sort_field, sort_direction = "desc")
                                 ELSE posts)
    /\ UNCHANGED <<file, deleted, th>>

\* query strings of GET /api/posts
SortValues == {"title", "content", "id", "bogus", ""}
DirectionValues == {"asc", "desc", "bogus"}

Dicts(k1, V1, k2, V2) ==
    {<<>>}
    \cup {[k \in {k1} |-> v] : v \in V1}
    \cup {[k \in {k2} |-> v] : v \in V2}
    \cup {[k \in {k1, k2} |-> IF k = k1 THEN vw[1] ELSE vw[2]] : vw \in V1 \X V2}

ListArgs == Dicts("sort", SortValues, "direction", DirectionValues)

\* the collections a listing or a search is tried on: up to MaxLen posts with
\* ids 1, 2, ... and the given titles and contents
RECURSIVE Collections(_, _, _)
Collections(n, T, C) ==
    IF n = 0 THEN {<<>>}
    ELSE LET shorter == Collections(n - 1, T, C)
         IN  shorter \cup
             {Append(c, Post(Len(c) + 1, tc[1], tc[2])) :
                  c \in {x \in shorter : Len(x) = n - 1}, tc \in T \X C}

ListTitles == {Banana, apple, Apple}
ListContents == {<<120>>, <<121>>}

ListInit ==
    /\ file \in {NoFile, Garbage(1)}
               \cup {write_posts(c) : c \in Collections(MaxLen, ListTitles, ListContents)}
    /\ req = NoRequest
    /\ resp = Response(0, <<>>)
    /\ prev = file
    /\ deleted = {}
    /\ th = IdleThreads

ListNext == \E args \in ListArgs : get_posts(args)

ListSpec == ListInit /\ [][ListNext]_vars

\* C7 (as claimed): a listing with a sort field other than title and content,
\* or a direction other than asc and desc, answers 400, and posts.json is as
\* it was.
C7_InvalidSortRejected ==
    (/\ req.op = "list"
     /\ \/ "sort" \in DOMAIN req.args /\ req.args["sort"] \notin {"title", "content"}
        \/ "direction" \in DOMAIN req.args /\ req.args["direction"] \notin {"asc", "desc"})
        => (resp.status = 400 /\ file = prev)

\* out holds the posts of in, ascending by the lower-cased field f, posts with
\* equal lower-cased f in the order they have in in
StableAscendingCI(out, in, f) ==
    LET key(p) == Lower(SortKey(p, f))
        at(p) == CHOOSE i \in 1..Len(in) : in[i] = p
    IN  /\ Len(out) = Len(in)
        /\ {out[i] : i \in 1..Len(out)} = {in[i] : i \in 1..Len(in)}
        /\ \A i, j \in 1..Len(out) :
               i < j => \/ StrLess(key(out[i]), key(out[j]))
                        \/ key(out[i]) = key(out[j]) /\ at(out[i]) < at(out[j])

\* C8 (as claimed): sort=f with direction=asc lists the stored posts ascending
\* by the case-insensitive value of f, equal keys in storage order; with
\* direction=desc it lists the exact reverse of that ascending sequence.
C8_SortCaseInsensitiveStable ==
    (/\ req.op = "list"
     /\ DOMAIN req.args = {"sort", "direction"}
     /\ req.args["sort"] \in {"title", "content"}
     /\ req.args["direction"] \in {"asc", "desc"})
        => /\ resp.status = 200
           /\ IF req.args["direction"] = "asc"
              THEN StableAscendingCI(resp.body, read_posts(file), req.args["sort"])
              ELSE StableAscendingCI(Reverse(resp.body), read_posts(file), req.args["sort"])

---------------------------------------------------------------------------
(* GET /api/posts/search *)

search_posts(args) ==
    /\ req' = Request("search", 0, NoneBody, args)
    /\ prev' = file
    /\ LET title_lower == Lower(Get(args, "title", EmptyStr))
           content_lower == Lower(Get(args, "content", EmptyStr))
           title_query == SplitFirst(title_lower)
           content_query == SplitFirst(content_lower)
           posts == read_posts(file)
           match(post) ==
               /\ IF title_query # EmptyStr
                  THEN Contains(title_query, Lower(post.title)) ELSE TRUE
               /\ IF content_query # EmptyStr
                  THEN Contains(content_query, Lower(post.content)) ELSE TRUE
       IN  resp' = Response(200, SelectSeq(posts, match))
    /\ UNCHANGED <<file, deleted, th>>

\* "a/n" and "x/y": a title and a content with a slash in them
SearchTitles == {Banana, apple, <<97, 47, 110>>}
SearchContents == {<<120>>, <<120, 47, 121>>}

\* "an", "AN", "a/n", "/", ""
TitleTerms == {<<97, 110>>, <<65, 78>>, <<97, 47, 110>>, <<47>>, EmptyStr}
\* "X", "x/y", "z"
ContentTerms == {<<88>>, <<120, 47, 121>>, <<122>>}

SearchArgs == Dicts("title", TitleTerms, "content", ContentTerms)

SearchInit ==
    /\ file \in {NoFile, Garbage(1)}
               \cup {write_posts(c) : c \in Collections(MaxLen, SearchTitles, SearchContents)}
    /\ req = NoRequest
    /\ resp = Response(0, <<>>)
    /\ prev = file
    /\ deleted = {}
    /\ th = IdleThreads

SearchNext == \E args \in SearchArgs : search_posts(args)

SearchSpec == SearchInit /\ [][SearchNext]_vars

\* C9 (as claimed): a search answers, in storage order, exactly the posts whose
\* title holds the title term and whose content holds the content term, each
\* when supplied and compared case-insensitively as a substring, whatever
\* characters the term has; posts.json is as it was.
C9_SearchAndSubstring ==
    req.op = "search" =>
        LET wanted(post) ==
                /\ "title" \in DOMAIN req.args
                       => Contains(Lower(req.args["title"]), Lower(post.title))
                /\ "content" \in DOMAIN req.args
                       => Contains(Lower(req.args["content"]), Lower(post.content))
        IN  /\ resp.status = 200
            /\ resp.body = SelectSeq(read_posts(prev), wanted)
            /\ file = prev

---------------------------------------------------------------------------
(*
  Concurrent service: the development server runs every request on a thread
  of its own, and nothing locks posts.json. A handler's accesses to the file
  are the steps: read_posts, and the two halves of write_posts, open(.., "w"),
  which empties the file, and json.dump with the close that flushes it, which
  puts the document's bytes at offset 0 of whatever the file then holds.
  The code before a handler's first access to the file is local to its
  thread and is part of that first step.
*)

Threads == {"t1", "t2"}

\* a thread's locals: where it is, the handler it runs, the posts it holds
\* and its answer; and as history the threads it raced (those that had read
\* and not begun to write when it read, or that read while it had), and whether
\* it is the thread that completed the latest write_posts
Local(pc, op, posts, status) ==
    [pc |-> pc, op |-> op, posts |-> posts, status |-> status,
     raced |-> {}, last |-> FALSE]

Idle == Local("idle", "none", <<>>, 0)

ConcTitles == {<<97>>, <<98, 98>>}

ConcBodies ==
    {NoneBody}
    \cup {Body([k \in {"title", "content"} |-> IF k = "title" THEN t ELSE <<120>>]) :
              t \in ConcTitles}

\* t has read posts.json and goes on to write: it has raced the threads that
\* are there already
Racing(t, local) ==
    LET there == {u \in Threads \ {t} : th[u].pc = "open"}
    IN  [u \in Threads |->
            IF u = t THEN [local EXCEPT !.raced = there]
            ELSE IF u \in there THEN [th[u] EXCEPT !.raced = @ \cup {t}]
            ELSE th[u]]

Answer(t, local) == [th EXCEPT ![t] = local]

ConcInit ==
    /\ file = NoFile
    /\ req = NoRequest
    /\ resp = Response(0, <<>>)
    /\ prev = file
    /\ deleted = {}
    /\ th = [t \in Threads |-> Idle]

\* add_post up to posts.append(new_post)
add_post_read(t, data) ==
    /\ th[t].pc = "idle"
    /\ IF AddInvalid(data)
       THEN th' = Answer(t, Local("done", "add", <<>>, 400))
       ELSE LET posts == read_posts(file)
                post == new_post(data, posts)
            IN  /\ post.id <= MaxId
                /\ th' = Racing(t, Local("open", "add", Append(posts, post), 201))
    /\ UNCHANGED <<file, req, resp, prev, deleted>>

\* update_post up to post["content"] = content
update_post_read(t, id, data) ==
    /\ th[t].pc = "idle"
    /\ LET posts == read_posts(file)
           i == Find(posts, id)
       IN  IF i = 0
           THEN th' = Answer(t, Local("done", "update", <<>>, 404))
           ELSE IF data.none
           THEN th' = Answer(t, Local("done", "update", <<>>, 500))
           ELSE IF UpdateInvalid(data)
           THEN th' = Answer(t, Local("done", "update", <<>>, 400))
           ELSE th' = Racing(t, Local("open", "update", Updated(posts, i, data), 200))
    /\ UNCHANGED <<file, req, resp, prev, deleted>>

\* delete_post up to posts.remove(post)
delete_post_read(t, id) ==
    /\ th[t].pc = "idle"
    /\ LET posts == read_posts(file)
           i == Find(posts, id)
       IN  IF i = 0
           THEN th' = Answer(t, Local("done", "delete", <<>>, 404))
           ELSE th' = Racing(t, Local("open", "delete", Remove(posts, posts[i]), 200))
    /\ UNCHANGED <<file, req, resp, prev, deleted>>

\* write_posts: open(POSTS_FILE, "w") truncates the file
write_posts_open(t) ==
    /\ th[t].pc = "open"
    /\ file' = NoFile
    /\ th' = [th EXCEPT ![t].pc = "dump"]
    /\ UNCHANGED <<req, resp, prev, deleted>>

\* the document as it lands on a file of size bytes: over a shorter or equal
\* file it is the file, over a longer one the file's tail stays behind it
Overwritten(posts, size) ==
    IF size <= JsonSize(posts) THEN write_posts(posts) ELSE Garbage(size)

\* write_posts: json.dump and the close that flushes it, then the handler's
\* return
write_posts_dump(t) ==
    /\ th[t].pc = "dump"
    /\ file' = Overwritten(th[t].posts, file.size)
    /\ th' = [u \in Threads |->
                 IF u = t THEN [th[u] EXCEPT !.pc = "done", !.last = TRUE]
                 ELSE [th[u] EXCEPT !.last = FALSE]]
    /\ UNCHANGED <<req, resp, prev, deleted>>

\* the response is out; the thread serves the next request
finish(t) ==
    /\ th[t].pc = "done"
    /\ th' = [u \in Threads |->
                 IF u = t THEN Idle ELSE [th[u] EXCEPT !.raced = @ \ {t}]]
    /\ UNCHANGED <<file, req, resp, prev, deleted>>

ConcNext ==
    \E t \in Threads :
        \/ \E data \in ConcBodies : add_post_read(t, data)
        \/ \E id \in 1..MaxId, data \in ConcBodies : update_post_read(t, id, data)
        \/ \E id \in 1..MaxId : delete_post_read(t, id)
        \/ write_posts_open(t)
        \/ write_posts_dump(t)
        \/ finish(t)

ConcSpec == ConcInit /\ [][ConcNext]_vars

\* C1: no two posts stored in posts.json share an id, whatever requests were
\* served and however their reads and writes of the file interleaved.
C1_UniqueIds ==
    \A i, j \in 1..Len(read_posts(file)) :
        i # j => read_posts(file)[i].id # read_posts(file)[j].id

\* two posts are stored, the second by a create that raced another request
C1_Witness ==
    /\ Len(read_posts(file)) = 2
    /\ \E t \in Threads :
           /\ th[t].pc = "done" /\ th[t].op = "add" /\ th[t].status = 201
           /\ th[t].raced # {}
           /\ file = write_posts(th[t].posts)

\* the collection a create read: what it holds, less the post it appended
ReadBy(t) == SubSeq(th[t].posts, 1, Len(th[t].posts) - 1)

\* p and q are creates that both read posts.json, and the same collection in
\* it, before either began to write; both have answered, p completed its
\* write_posts last, and no other write is under way
RacedCreates(p, q) ==
    /\ p # q
    /\ th[p].op = "add" /\ th[p].pc = "done"
    /\ th[q].op = "add" /\ th[q].pc = "done"
    /\ q \in th[p].raced
    /\ ReadBy(p) = ReadBy(q)
    /\ th[p].last
    /\ \A u \in Threads : th[u].pc # "dump"

\* C10 (as claimed): when two creates both read the collection before either
\* writes, both answer 201 with the same id, and posts.json then holds the
\* collection they read with only the post of the one that wrote last.
C10_LastWriteWins ==
    \A p, q \in Threads :
        RacedCreates(p, q) =>
            /\ th[p].status = 201 /\ th[q].status = 201
            /\ th[p].posts[Len(th[p].posts)].id = th[q].posts[Len(th[q].posts)].id
            /\ file = write_posts(Append(ReadBy(p), th[p].posts[Len(th[p].posts)]))

\* What holds of the code in that situation: the same id is acknowledged
\* twice, and posts.json is either the last writer's document or, when its
\* write_posts overlapped the other's, garbage that reads as no post at all.
C10_LastWriteWinsOrGarbage ==
    \A p, q \in Threads :
        RacedCreates(p, q) =>
            /\ th[p].status = 201 /\ th[q].status = 201
            /\ th[p].posts[Len(th[p].posts)].id = th[q].posts[Len(th[q].posts)].id
            /\ file.kind = "json" => file = write_posts(th[p].posts)
            /\ file.kind # "none"

\* the lost update: two acknowledged creates, one post stored
C10_LostUpdate ==
    \E p, q \in Threads :
        /\ RacedCreates(p, q)
        /\ file = write_posts(th[p].posts)
        /\ th[q].posts # th[p].posts

\* both acknowledged posts lost: the overlapped write left garbage
C10_BothLost ==
    \E p, q \in Threads : RacedCreates(p, q) /\ file.kind = "garbage"

===========================================================================
